---- MODULE Spec2Model ----
(***************************************************************************)
(* Model of the self-hosted Supabase MCP server: the HTTP front-end        *)
(* (rate limiter, CORS, JWT middleware, /health and /mcp routes) and the   *)
(* CallTool dispatcher with its role/privilege access control.             *)
(***************************************************************************)
EXTENDS Integers, Sequences, FiniteSets, TLC

\* ------------------------------------------------------------------ bounds
MaxSeconds == 2

\* ------------------------------------------------------- program constants
MsPerSecond == 1000

\* `this.options.requestTimeoutMs ?? 30000`
DefaultRequestTimeoutMs == 30000

\* ------------------------------------------------------------- small sets
Slots == {1}

\* Two requests in flight at once.
ConcurrentSlots == {1, 2}

NoLevel == "undefined"

NoClaim == "undefined"

NoExp == -1

\* ---------------------------------------------------------- access control
ToolPrivilegeLevel == {"regular", "privileged"}

ROLE_PRIVILEGE_MAP ==
    [service_role  |-> {"regular", "privileged"},
     authenticated |-> {"regular"},
     anon          |-> {}]

canAccessToolAnonAsAuthenticated(userRole, toolPrivilegeLevel) ==
    LET allowedLevels == IF userRole \in DOMAIN ROLE_PRIVILEGE_MAP /\ userRole # "anon"
                         THEN ROLE_PRIVILEGE_MAP[userRole]
                         ELSE ROLE_PRIVILEGE_MAP["authenticated"]
    IN  toolPrivilegeLevel \in allowedLevels

canAccessToolUnknownElevated(userRole, toolPrivilegeLevel) ==
    LET allowedLevels == IF userRole \in DOMAIN ROLE_PRIVILEGE_MAP
                         THEN ROLE_PRIVILEGE_MAP[userRole]
                         ELSE ROLE_PRIVILEGE_MAP["service_role"]
    IN  toolPrivilegeLevel \in allowedLevels

canAccessTool(userRole, toolPrivilegeLevel) ==
    LET allowedLevels == IF userRole \in DOMAIN ROLE_PRIVILEGE_MAP
                         THEN ROLE_PRIVILEGE_MAP[userRole]
                         ELSE ROLE_PRIVILEGE_MAP["authenticated"]
    IN  toolPrivilegeLevel \in allowedLevels

\* ------------------------------------------------------------ tool catalog
\* privilegeLevel of each modelled tool descriptor; NoLevel = the descriptor
\* has no privilegeLevel property.
availableTools ==
    [execute_sql           |-> [privilegeLevel |-> "privileged"],
     explain_query         |-> [privilegeLevel |-> "privileged"],
     update_storage_config |-> [privilegeLevel |-> NoLevel],
     list_indexes          |-> [privilegeLevel |-> "regular"]]

\* Tools the README tables mark as Privileged (those modelled above).
ReadmePrivileged == {"execute_sql", "explain_query", "update_storage_config"}

ToolNames == DOMAIN availableTools \cup {"no_such_tool"}

\* `tool.privilegeLevel ?? 'regular'`
EffectiveLevel(tool) ==
    IF tool.privilegeLevel = NoLevel THEN "regular" ELSE tool.privilegeLevel

\* --------------------------------------------------------------- utilities
Max(a, b) == IF a >= b THEN a ELSE b

\* Math.ceil(a / b) for b > 0
Ceil(a, b) == -((-a) \div b)

\* ------------------------------------------------- execution fallback chain
\* A SqlExecutionResult: rows (n of them; exists = the first row's `exists`
\* or `logfile` column is truthy) or an error response {error: {message, code}}.
Rows(n, exists) ==
    [kind |-> "rows", n |-> n, exists |-> exists, code |-> "", message |-> ""]

SqlError(code, message) ==
    [kind |-> "error", n |-> 0, exists |-> FALSE, code |-> code,
     message |-> message]

\* What a backend primitive (executeSqlWithPg, executeSqlViaServiceRoleRpc)
\* can answer for one statement.
BackendResults ==
    {Rows(1, TRUE), Rows(1, FALSE), Rows(0, FALSE),
     SqlError("42501", "permission denied")}

\* The two kinds of answer: rows, or an error.
RowsOrError == {Rows(1, TRUE), SqlError("42501", "permission denied")}

RowsOnly == {Rows(1, TRUE), Rows(0, FALSE)}

executeSqlWithFallbackFallsThrough(pgAvailable, serviceRoleAvailable, pgResult, rpcResult) ==
    IF pgAvailable /\ (pgResult.kind = "rows" \/ ~serviceRoleAvailable)
    THEN [attempts |-> <<"pg">>, result |-> pgResult]
    ELSE IF pgAvailable
    THEN [attempts |-> <<"pg", "rpc">>, result |-> rpcResult]
    ELSE IF serviceRoleAvailable
    THEN [attempts |-> <<"rpc">>, result |-> rpcResult]
    ELSE [attempts |-> <<>>,
          result |-> SqlError("MCP_CONFIG_ERROR",
                              "Neither direct database connection (DATABASE_URL) nor service role key (SUPABASE_SERVICE_ROLE_KEY) is configured. Cannot execute SQL.")]

executeSqlWithFallbackSilentWhenUnconfigured(pgAvailable, serviceRoleAvailable, pgResult, rpcResult) ==
    IF pgAvailable
    THEN [attempts |-> <<"pg">>, result |-> pgResult]
    ELSE IF serviceRoleAvailable
    THEN [attempts |-> <<"rpc">>, result |-> rpcResult]
    ELSE [attempts |-> <<>>, result |-> Rows(0, FALSE)]

\* executeSqlWithFallback(client, sql, readOnly): attempts = the backend
\* primitives it called, in order; result = what it returns.  pgResult and
\* rpcResult are what each primitive would answer if called.
executeSqlWithFallback(pgAvailable, serviceRoleAvailable, pgResult, rpcResult) ==
    IF pgAvailable
    THEN [attempts |-> <<"pg">>, result |-> pgResult]
    ELSE IF serviceRoleAvailable
    THEN [attempts |-> <<"rpc">>, result |-> rpcResult]
    ELSE [attempts |-> <<>>,
          result |-> SqlError("MCP_CONFIG_ERROR",
                              "Neither direct database connection (DATABASE_URL) nor service role key (SUPABASE_SERVICE_ROLE_KEY) is configured. Cannot execute SQL.")]

\* `(result as SqlErrorResponse).error !== undefined`
isSqlErrorResponse(result) == result.kind = "error"

\* What a tool body does: it returns a value (payload = what the value says,
\* parts = the backend error parts carried in it) or throws (parts = the
\* parts interpolated into the Error's message).
Returns(payload, parts) == [threw |-> FALSE, payload |-> payload, parts |-> parts]

Throws(payload, parts) == [threw |-> TRUE, payload |-> payload, parts |-> parts]

NoOutcome == [threw |-> FALSE, payload |-> "", parts |-> <<>>]

\* handleSqlResponse(result, schema), for rows that match the schema.
handleSqlResponse(result) ==
    IF result.kind = "error"
    THEN Throws("SQL Error", <<result.code, result.message>>)
    ELSE Returns("rows", <<>>)

\* `!Array.isArray(r) || r.length === 0 || !r[0]?.exists`
NotFoundCheck(result) ==
    result.kind # "rows" \/ result.n = 0 \/ ~result.exists

\* ------------------------------------------------------------- tool bodies
\* Statements one tool body issues at most (update_storage_config: 3).
MaxStatements == 3

\* No backend primitive was called, so none answered.
NoAnswer ==
    [kind |-> "none", n |-> 0, exists |-> FALSE, code |-> "", message |-> ""]

\* One invocation of the chain by a tool body; answer = what the backend
\* answered to the statement (o), kept beside what the chain returned.
Chain(pg, sr, o) ==
    LET c == executeSqlWithFallback(pg, sr, o, o)
    IN  [attempts |-> c.attempts, result |-> c.result,
         answer |-> IF c.attempts = <<>> THEN NoAnswer ELSE o]

Body(calls, outcome) == [calls |-> calls, outcome |-> outcome]

\* executeSqlTool.execute
ExecuteSqlBody(pg, sr, os) ==
    IF ~pg /\ ~sr
    THEN Body(<<>>, Throws("execute_sql requires DATABASE_URL or SUPABASE_SERVICE_ROLE_KEY", <<>>))
    ELSE LET c == Chain(pg, sr, os[1])
         IN  Body(<<c>>, handleSqlResponse(c.result))

\* listIndexesTool.execute (identifiers valid)
ListIndexesBody(pg, sr, os) ==
    LET c == Chain(pg, sr, os[1])
    IN  Body(<<c>>, handleSqlResponse(c.result))

\* explainQueryTool.execute
ExplainQueryBody(pg, sr, os) ==
    LET c == Chain(pg, sr, os[1])
    IN  IF isSqlErrorResponse(c.result)
        THEN Body(<<c>>, Throws("Failed to explain query", <<c.result.message>>))
        ELSE Body(<<c>>, Returns("plan", <<>>))

\* updateStorageConfigTool.execute (at least one update given)
UpdateStorageConfigBody(pg, sr, os) ==
    LET schemaCheck == Chain(pg, sr, os[1])
        bucketCheck == Chain(pg, sr, os[2])
        update      == Chain(pg, sr, os[3])
    IN  IF NotFoundCheck(schemaCheck.result)
        THEN Body(<<schemaCheck>>,
                  Returns("success: false, Storage schema not found - Storage may not be configured", <<>>))
        ELSE IF NotFoundCheck(bucketCheck.result)
        THEN Body(<<schemaCheck, bucketCheck>>,
                  Returns("success: false, Bucket not found", <<>>))
        ELSE IF isSqlErrorResponse(update.result)
        THEN Body(<<schemaCheck, bucketCheck, update>>,
                  Returns("success: false, Failed to update bucket",
                          <<update.result.message>>))
        ELSE IF update.result.n = 0
        THEN Body(<<schemaCheck, bucketCheck, update>>,
                  Returns("success: false, Update executed but no rows returned", <<>>))
        ELSE Body(<<schemaCheck, bucketCheck, update>>,
                  Returns("success: true, Successfully updated bucket", <<>>))

\* tool.execute(parsedArgs, context) for a tool of the catalog; os[i] is what
\* the backend answers to the body's i-th statement.
ToolExecute(toolName, pg, sr, os) ==
    CASE toolName = "execute_sql" -> ExecuteSqlBody(pg, sr, os)
      [] toolName = "explain_query" -> ExplainQueryBody(pg, sr, os)
      [] toolName = "update_storage_config" -> UpdateStorageConfigBody(pg, sr, os)
      [] OTHER -> ListIndexesBody(pg, sr, os)

\* ------------------------------------------------ generate_typescript_types
\* A text is the sequence of its parts.  The database URL is kept by its
\* components; password = "" when the URL has none.
DbPassword == "s3cret"

NoDbUrl == [user |-> "", password |-> "", host |-> ""]

DbUrls ==
    {NoDbUrl,
     [user |-> "postgres", password |-> DbPassword, host |-> "db:5432/postgres"],
     [user |-> "postgres", password |-> "", host |-> "db:5432/postgres"]}

\* The URL as the string it is.
UrlText(url) ==
    <<"postgresql://", url.user>>
    \o (IF url.password # "" THEN <<":", url.password>> ELSE <<>>)
    \o <<"@", url.host>>

\* redactDatabaseUrl, for a URL that `new URL` parses.
redactDatabaseUrl(url) ==
    IF url.password # "" THEN [url EXCEPT !.password = "****"] ELSE url

\* How the child process of exec(command) ends: exit status and stderr.
ExecOutcomes ==
    {[failed |-> FALSE, stderr |-> <<>>],
     [failed |-> FALSE, stderr |-> <<"warning: deprecated flag">>],
     [failed |-> TRUE,  stderr |-> <<"connection refused">>],
     [failed |-> TRUE,  stderr |-> <<>>]}

NoError == <<>>

\* child_process.exec rejects with an Error whose message is
\* `Command failed: ${cmd}\n${stderr}`.
ExecErrorMessage(command, outcome) ==
    <<"Command failed: ">> \o command \o outcome.stderr

\* runExternalCommand(command): {stdout, stderr, error}.
runExternalCommand(command, outcome) ==
    IF ~outcome.failed
    THEN [stderr |-> outcome.stderr, error |-> NoError]
    ELSE [stderr |-> IF outcome.stderr # <<>> THEN outcome.stderr
                     ELSE ExecErrorMessage(command, outcome),
          error |-> ExecErrorMessage(command, outcome)]

\* generateTypesTool.execute (output path valid and writable): the log lines
\* it emits and what it returns.
GenerateTypesBody(dbUrl, schemasValid, outcome) ==
    IF dbUrl = NoDbUrl
    THEN [log |-> <<>>,
          outcome |-> Returns("success: false, Error: DATABASE_URL is not configured. Cannot generate types.", <<>>)]
    ELSE IF ~schemasValid
    THEN [log |-> <<>>,
          outcome |-> Returns("success: false, Invalid schema name", <<>>)]
    ELSE LET command == <<"supabase gen types typescript --db-url ">>
                        \o UrlText(dbUrl) \o <<" --schema public">>
             running == <<"Running command: supabase gen types typescript --db-url ">>
                        \o UrlText(redactDatabaseUrl(dbUrl)) \o <<" --schema public">>
             r == runExternalCommand(command, outcome)
         IN  IF r.error # NoError
             THEN [log |-> <<running,
                             <<"Error executing supabase gen types: ">>
                             \o (IF r.stderr # <<>> THEN r.stderr ELSE r.error)>>,
                   outcome |-> Returns("success: false, Command failed",
                                       IF r.stderr # <<>> THEN r.stderr ELSE r.error)]
             ELSE IF r.stderr # <<>>
             THEN [log |-> <<running,
                             <<"supabase gen types produced stderr output: ">>
                             \o r.stderr>>,
                   outcome |-> Returns("success: true, Types generated successfully", <<>>)]
             ELSE [log |-> <<running>>,
                   outcome |-> Returns("success: true, Types generated successfully", <<>>)]

\* ---------------------------------------------------------------- responses
\* reason = the library's error.message interpolated into the body, if any.
NoResp ==
    [status |-> 0, error |-> "", message |-> "", reason |-> "", retryAfter |-> 0]

Resp(status, error, message) ==
    [status |-> status, error |-> error, message |-> message, reason |-> "",
     retryAfter |-> 0]

NoReply == [kind |-> "none", message |-> "", detail |-> <<>>]

NoUser == [present |-> FALSE, userId |-> "", role |-> "", exp |-> 0]

\* ------------------------------------------------------------ rate limiter
\* requestCounts is a map: a function whose DOMAIN is the set of keys present.
MapSet(m, k, v) == [x \in DOMAIN m \cup {k} |-> IF x = k THEN v ELSE m[x]]

MapDelete(m, ks) == [x \in DOMAIN m \ ks |-> m[x]]

checkRateLimitOffByOne(counts, clientKey, t, windowMs, maxRequests) ==
    IF clientKey \notin DOMAIN counts \/ t >= counts[clientKey].resetTime
    THEN [allowed |-> TRUE, remaining |-> maxRequests - 1,
          resetTime |-> t + windowMs, limit |-> maxRequests,
          counts |-> MapSet(counts, clientKey,
                            [count |-> 1, resetTime |-> t + windowMs])]
    ELSE IF counts[clientKey].count > maxRequests
    THEN [allowed |-> FALSE, remaining |-> 0,
          resetTime |-> counts[clientKey].resetTime, limit |-> maxRequests,
          counts |-> counts]
    ELSE [allowed |-> TRUE,
          remaining |-> maxRequests - (counts[clientKey].count + 1),
          resetTime |-> counts[clientKey].resetTime, limit |-> maxRequests,
          counts |-> MapSet(counts, clientKey,
                            [count |-> counts[clientKey].count + 1,
                             resetTime |-> counts[clientKey].resetTime])]

checkRateLimitLostIncrement(counts, clientKey, t, windowMs, maxRequests) ==
    IF clientKey \notin DOMAIN counts \/ t >= counts[clientKey].resetTime
    THEN [allowed |-> TRUE, remaining |-> maxRequests - 1,
          resetTime |-> t + windowMs, limit |-> maxRequests,
          counts |-> MapSet(counts, clientKey,
                            [count |-> 1, resetTime |-> t + windowMs])]
    ELSE IF counts[clientKey].count >= maxRequests
    THEN [allowed |-> FALSE, remaining |-> 0,
          resetTime |-> counts[clientKey].resetTime, limit |-> maxRequests,
          counts |-> counts]
    ELSE [allowed |-> TRUE,
          remaining |-> maxRequests - (counts[clientKey].count + 1),
          resetTime |-> counts[clientKey].resetTime, limit |-> maxRequests,
          counts |-> counts]

checkRateLimitResetsOnReject(counts, clientKey, t, windowMs, maxRequests) ==
    IF clientKey \notin DOMAIN counts \/ t >= counts[clientKey].resetTime
    THEN [allowed |-> TRUE, remaining |-> maxRequests - 1,
          resetTime |-> t + windowMs, limit |-> maxRequests,
          counts |-> MapSet(counts, clientKey,
                            [count |-> 1, resetTime |-> t + windowMs])]
    ELSE IF counts[clientKey].count >= maxRequests
    THEN [allowed |-> FALSE, remaining |-> 0,
          resetTime |-> counts[clientKey].resetTime, limit |-> maxRequests,
          counts |-> MapSet(counts, clientKey,
                            [count |-> 0,
                             resetTime |-> counts[clientKey].resetTime])]
    ELSE [allowed |-> TRUE,
          remaining |-> maxRequests - (counts[clientKey].count + 1),
          resetTime |-> counts[clientKey].resetTime, limit |-> maxRequests,
          counts |-> MapSet(counts, clientKey,
                            [count |-> counts[clientKey].count + 1,
                             resetTime |-> counts[clientKey].resetTime])]

checkRateLimit(counts, clientKey, t, windowMs, maxRequests) ==
    IF clientKey \notin DOMAIN counts \/ t >= counts[clientKey].resetTime
    THEN [allowed |-> TRUE, remaining |-> maxRequests - 1,
          resetTime |-> t + windowMs, limit |-> maxRequests,
          counts |-> MapSet(counts, clientKey,
                            [count |-> 1, resetTime |-> t + windowMs])]
    ELSE IF counts[clientKey].count >= maxRequests
    THEN [allowed |-> FALSE, remaining |-> 0,
          resetTime |-> counts[clientKey].resetTime, limit |-> maxRequests,
          counts |-> counts]
    ELSE [allowed |-> TRUE,
          remaining |-> maxRequests - (counts[clientKey].count + 1),
          resetTime |-> counts[clientKey].resetTime, limit |-> maxRequests,
          counts |-> MapSet(counts, clientKey,
                            [count |-> counts[clientKey].count + 1,
                             resetTime |-> counts[clientKey].resetTime])]

retryAfterSecondsFloor(resetTime, t) == Max(1, (resetTime - t) \div MsPerSecond)

\* Math.max(1, Math.ceil((resetTime - Date.now()) / 1000))
retryAfterSeconds(resetTime, t) == Max(1, Ceil(resetTime - t, MsPerSecond))

\* x-forwarded-for is modelled as the list of addresses of the header
\* (<<>> = header absent); the key is its first entry, else the socket address.
getClientKey(forwarded, ip) == IF forwarded # <<>> THEN Head(forwarded) ELSE ip

\* -------------------------------------------------------------------- CORS
\* An origin is <<scheme://host, port>>; <<>> = no Origin header.
NoOrigin == <<>>

corsOrigins == {<<"http://localhost", "*">>, <<"https://app.example", "443">>}

isOriginAllowed(origin) ==
    \/ origin = NoOrigin
    \/ <<"*">> \in corsOrigins
    \/ origin \in corsOrigins
    \/ \E allowed \in corsOrigins :
          /\ Len(allowed) = 2
          /\ allowed[2] = "*"
          /\ origin[1] = allowed[1]

\* --------------------------------------------------------------------- JWT
\* A token: how it was produced (form, signing) and the claims it carries.
MalformedToken ==
    [form |-> "malformed", signing |-> "none", sub |-> NoClaim, exp |-> NoExp,
     role |-> NoClaim]

EmptyToken ==
    [form |-> "empty", signing |-> "none", sub |-> NoClaim, exp |-> NoExp,
     role |-> NoClaim]

jwtVerifyIgnoreExpiry(token, t) ==
    IF token.form = "malformed"
    THEN [name |-> "JsonWebTokenError", message |-> "jwt malformed"]
    ELSE IF token.signing = "HS512-secret"
    THEN [name |-> "JsonWebTokenError", message |-> "invalid algorithm"]
    ELSE IF token.signing # "HS256-secret"
    THEN [name |-> "JsonWebTokenError", message |-> "invalid signature"]
    ELSE [name |-> "ok", message |-> ""]

\* jsonwebtoken's verify(token, secret, {algorithms: ['HS256']}): the error it
\* throws, or "ok".  Checks run in the library's order: structure, algorithm,
\* signature, then exp against floor(now / 1000).
jwtVerify(token, t) ==
    IF token.form = "malformed"
    THEN [name |-> "JsonWebTokenError", message |-> "jwt malformed"]
    ELSE IF token.signing = "HS512-secret"
    THEN [name |-> "JsonWebTokenError", message |-> "invalid algorithm"]
    ELSE IF token.signing # "HS256-secret"
    THEN [name |-> "JsonWebTokenError", message |-> "invalid signature"]
    ELSE IF token.exp # NoExp /\ (t \div MsPerSecond) >= token.exp
    THEN [name |-> "TokenExpiredError", message |-> "jwt expired"]
    ELSE [name |-> "ok", message |-> ""]

\* `error instanceof jwt.JsonWebTokenError`: TokenExpiredError and
\* NotBeforeError are subclasses of JsonWebTokenError in jsonwebtoken.
instanceofJsonWebTokenError(err) ==
    err.name \in {"JsonWebTokenError", "TokenExpiredError", "NotBeforeError"}

instanceofTokenExpiredError(err) == err.name = "TokenExpiredError"

\* `!decoded.sub`
Falsy(claim) == claim = NoClaim \/ claim = ""

\* The middleware returned by createAuthMiddleware: the decision for one
\* Authorization header at time t.
authMiddleware(header, t) ==
    IF header.scheme = "none"
    THEN [next |-> FALSE, user |-> NoUser,
          resp |-> Resp(401, "Unauthorized", "Missing Authorization header")]
    ELSE IF header.scheme # "Bearer"
    THEN [next |-> FALSE, user |-> NoUser,
          resp |-> Resp(401, "Unauthorized", "Invalid Authorization header format. Expected: Bearer <token>")]
    ELSE IF header.token.form = "empty"
    THEN [next |-> FALSE, user |-> NoUser,
          resp |-> Resp(401, "Unauthorized", "Missing token in Authorization header")]
    ELSE LET err == jwtVerify(header.token, t) IN
         IF err.name = "ok"
         THEN IF Falsy(header.token.sub)
              THEN [next |-> FALSE, user |-> NoUser,
                    resp |-> Resp(401, "Unauthorized",
                                  "Invalid token: missing subject (sub) claim")]
              ELSE [next |-> TRUE,
                    user |-> [present |-> TRUE,
                              userId |-> header.token.sub,
                              role |-> IF Falsy(header.token.role)
                                       THEN "authenticated"
                                       ELSE header.token.role,
                              exp |-> IF header.token.exp = NoExp
                                      THEN 0 ELSE header.token.exp],
                    resp |-> NoResp]
         ELSE IF instanceofJsonWebTokenError(err)
         THEN [next |-> FALSE, user |-> NoUser,
               resp |-> [Resp(401, "Unauthorized", "Invalid token")
                           EXCEPT !.reason = err.message]]
         ELSE IF instanceofTokenExpiredError(err)
         THEN [next |-> FALSE, user |-> NoUser,
               resp |-> Resp(401, "Unauthorized", "Token has expired")]
         ELSE [next |-> FALSE, user |-> NoUser,
               resp |-> Resp(500, "Internal Server Error",
                             "Failed to verify authentication token")]

\* ------------------------------------------------------------ input pools
Paths == {"/health", "/health/", "/mcp"}

\* express matches a route path with its default settings: strict routing
\* is off, so a trailing slash is accepted.
RouteMatches(route, path) ==
    \/ path = route
    \/ route = "/health" /\ path = "/health/"
    \/ route = "/mcp" /\ path = "/mcp/"

Methods == {"GET", "POST", "OPTIONS"}

\* req.ip: every modelled connection comes from one remote caller.
SlotIp == [s \in ConcurrentSlots |-> "10.0.0.1"]

Forwardeds == {<<>>, <<"203.0.113.9", "10.0.0.1">>}

Origins == {NoOrigin, <<"http://localhost", "5173">>, <<"http://evil.example", "80">>}

\* Tokens signed with the configured secret and HS256, with every claim
\* combination; and tokens signed otherwise that claim to be a live admin.
JwtTokens ==
    [form : {"jwt"},
     signing : {"HS256-secret"},
     sub : {NoClaim, "", "user-123"},
     exp : {NoExp, 1, 1000},
     role : {NoClaim, "service_role", "authenticated", "anon", "admin"}]
    \cup
    [form : {"jwt"},
     signing : {"HS256-wrong", "HS512-secret"},
     sub : {NoClaim, "user-123"},
     exp : {NoExp, 1, 1000},
     role : {"service_role"}]

NoHeader == [scheme |-> "none", token |-> EmptyToken]

AuthHeaders ==
    {NoHeader, [scheme |-> "Basic", token |-> EmptyToken]}
    \cup [scheme : {"Bearer"}, token : JwtTokens \cup {EmptyToken, MalformedToken}]

\* ------------------------------------------------------ tool configuration
\* enabledToolNames = null
NoWhitelist == {"<null>"}

\* The --tools-config option and the file it names.  kind: "none" (option not
\* given), "missing" (no such file), "invalid_json" (JSON.parse throws), or
\* "json" with the shape of the parsed value and the entries of enabledTools.
NoToolsConfig == [kind |-> "none", shape |-> "", entries |-> <<>>]

MissingFile == [kind |-> "missing", shape |-> "", entries |-> <<>>]

InvalidJsonFile == [kind |-> "invalid_json", shape |-> "", entries |-> <<>>]

JsonFile(shape) == [kind |-> "json", shape |-> shape, entries |-> <<>>]

Str(value) == [type |-> "string", value |-> value]

Num(value) == [type |-> "number", value |-> value]

EnabledToolsFile(entries) ==
    [kind |-> "json", shape |-> "enabledTools_array", entries |-> entries]

\* String.prototype.trim on the strings used in the modelled files.
Trim(str) ==
    CASE str = " list_indexes " -> "list_indexes"
      [] str = "  " -> ""
      [] OTHER -> str

LoadToolsConfigNoFallback(file) ==
    IF file.kind = "none"
    THEN [enabledToolNames |-> NoWhitelist, warned |-> FALSE, threw |-> FALSE]
    ELSE IF \/ file.kind \in {"missing", "invalid_json"}
            \/ file.shape # "enabledTools_array"
            \/ \E i \in 1..Len(file.entries) : file.entries[i].type # "string"
    THEN [enabledToolNames |-> NoWhitelist, warned |-> FALSE, threw |-> TRUE]
    ELSE [enabledToolNames |->
              {Trim(file.entries[i].value) : i \in 1..Len(file.entries)} \ {""},
          warned |-> FALSE, threw |-> FALSE]

\* Tool configuration loading: the value of enabledToolNames after the
\* try/catch, whether the fallback warning was logged, and whether an error
\* left the block (which main() rethrows: the process exits).
LoadToolsConfig(file) ==
    IF file.kind = "none"
    THEN [enabledToolNames |-> NoWhitelist, warned |-> FALSE, threw |-> FALSE]
    ELSE IF \/ file.kind \in {"missing", "invalid_json"}
            \/ file.shape # "enabledTools_array"
            \/ \E i \in 1..Len(file.entries) : file.entries[i].type # "string"
    THEN [enabledToolNames |-> NoWhitelist, warned |-> TRUE, threw |-> FALSE]
    ELSE [enabledToolNames |->
              {Trim(file.entries[i].value) : i \in 1..Len(file.entries)} \ {""},
          warned |-> FALSE, threw |-> FALSE]

WhitelistFiles ==
    {NoToolsConfig,
     EnabledToolsFile(<<Str("list_indexes"), Str("execute_sql"), Str("not_a_tool")>>)}

MalformedFiles ==
    {MissingFile, InvalidJsonFile, JsonFile("null"), JsonFile("string"),
     JsonFile("object_without_enabledTools"), JsonFile("enabledTools_not_array"),
     EnabledToolsFile(<<Str("list_indexes"), Num("42")>>)}

ToolsConfigFiles ==
    WhitelistFiles \cup MalformedFiles
    \cup {EnabledToolsFile(<<>>),
          EnabledToolsFile(<<Str(" list_indexes "), Str("  ")>>)}

\* Whitelists a --tools-config file can produce (NoWhitelist = null).
Whitelists == {LoadToolsConfig(file).enabledToolNames : file \in WhitelistFiles}

\* ------------------------------------------------------------------- state
VARIABLES
    mode,                  \* "http" or "stdio" (--transport)
    toolsConfig,           \* options.toolsConfig and the file it names
    enabledToolNames,      \* the whitelist after loading (NoWhitelist = null)
    configWarning,         \* the fallback warning was logged at startup
    started,               \* main() reached the transport start
    registeredTools,       \* names of the whitelist-filtered catalog
    pgAvailable,           \* client.isPgAvailable()
    serviceRoleAvailable,  \* client.isServiceRoleAvailable()
    requestTimeoutMs,      \* options.requestTimeoutMs ?? 30000
    rateLimitWindowMs,     \* options.rateLimitWindowMs
    rateLimitMaxRequests,  \* options.rateLimitMaxRequests
    now,                   \* Date.now(), ms
    requestCounts,         \* HttpMcpServer.requestCounts
    seen,                  \* history: per client key, the requests that
                           \* reached the rate limiter in the key's window
    req                    \* per slot: the request in flight and its progress

vars == <<mode, toolsConfig, enabledToolNames, configWarning, started, registeredTools,
          pgAvailable, serviceRoleAvailable, requestTimeoutMs,
          rateLimitWindowMs, rateLimitMaxRequests, now, requestCounts, seen, req>>

config == <<mode, toolsConfig, enabledToolNames, configWarning, started, registeredTools,
            pgAvailable, serviceRoleAvailable, requestTimeoutMs,
            rateLimitWindowMs, rateLimitMaxRequests>>

\* armedAt: when the timeout timer was armed; rpc: the JSON-RPC method of the
\* call; issues: what the tool's input schema finds wrong with the arguments;
\* calls: the fallback chain invocations of the tool body; listing: the tools
\* returned by tools/list; written: how many responses were written to res;
\* threw: the try block of the POST /mcp handler threw; log: the console.error
\* lines of the tool body.
IdleReq ==
    [pc |-> "idle", path |-> "", method |-> "", forwarded |-> <<>>,
     clientKey |-> "", nth |-> 0, origin |-> NoOrigin, auth |-> NoHeader, authAt |-> 0,
     armedAt |-> 0,
     user |-> NoUser, userContext |-> NoUser, rpc |-> "", tool |-> "",
     issues |-> <<>>, argsValid |-> TRUE,
     stages |-> <<>>, resp |-> NoResp, reply |-> NoReply, bodyRan |-> FALSE,
     calls |-> <<>>, backendCalls |-> 0, outcome |-> NoOutcome,
     listing |-> {}, audit |-> FALSE, session |-> FALSE,
     written |-> 0, threw |-> FALSE, log |-> <<>>]

FilterToolsKeepsUnlisted(enabled) ==
    IF enabled = NoWhitelist \/ enabled = {}
    THEN DOMAIN availableTools
    ELSE {toolName \in DOMAIN availableTools : toolName \in enabled}

\* Tool filtering at startup: registeredTools from enabledToolNames.
FilterTools(enabled) ==
    IF enabled = NoWhitelist
    THEN DOMAIN availableTools
    ELSE {toolName \in DOMAIN availableTools : toolName \in enabled}

\* The backend credentials and the request timeout of the configuration.
InitBackend(pgs, serviceRoles, timeouts) ==
    /\ pgAvailable \in pgs
    /\ serviceRoleAvailable \in serviceRoles
    /\ requestTimeoutMs \in timeouts

\* No request is in flight.
InitSlots(slots) == req = [s \in slots |-> IdleReq]

InitWith(modes, files, windows, maxima) ==
    /\ mode \in modes
    /\ toolsConfig \in files
    /\ enabledToolNames = LoadToolsConfig(toolsConfig).enabledToolNames
    /\ configWarning = LoadToolsConfig(toolsConfig).warned
    /\ started = ~LoadToolsConfig(toolsConfig).threw
    /\ registeredTools = FilterTools(enabledToolNames)
    /\ rateLimitWindowMs \in windows
    /\ rateLimitMaxRequests \in maxima
    /\ now = 0
    /\ requestCounts = [k \in {} |-> [count |-> 0, resetTime |-> 0]]
    /\ seen = [k \in {} |-> [start |-> 0, n |-> 0, retryAt |-> 0,
                              waited |-> FALSE]]

Init ==
    /\ InitWith({"http", "stdio"}, WhitelistFiles, {1500}, {2})
    /\ InitBackend({TRUE}, {FALSE}, {DefaultRequestTimeoutMs})
    /\ InitSlots(Slots)

\* History of arrivals: a key's window opens with its first request and lasts
\* rateLimitWindowMs; n counts the key's requests in it (capped above the
\* limit so the history stays finite).
Observe(h, clientKey) ==
    IF clientKey \notin DOMAIN h \/ now >= h[clientKey].start + rateLimitWindowMs
    THEN MapSet(h, clientKey, [start |-> now, n |-> 1])
    ELSE MapSet(h, clientKey,
                [start |-> h[clientKey].start,
                 n |-> IF h[clientKey].n > rateLimitMaxRequests
                       THEN h[clientKey].n ELSE h[clientKey].n + 1])

\* History of rejections: retryAt = when the retry-after time advertised by the
\* key's latest rejection is over (0: its latest request was admitted);
\* waited = the key's latest request came when that time was over.
ObserveOutcome(h, clientKey, rl) ==
    LET o == Observe(h, clientKey)[clientKey]
        prior == IF clientKey \in DOMAIN h THEN h[clientKey].retryAt ELSE 0
    IN  MapSet(h, clientKey,
               [start |-> o.start, n |-> o.n,
                retryAt |-> IF rl.allowed THEN 0
                            ELSE now + retryAfterSeconds(rl.resetTime, now) * MsPerSecond,
                waited |-> prior # 0 /\ now >= prior])

\* ----------------------------------------------------------------- actions
Respond(s, r, response) ==
    req' = [req EXCEPT ![s] = [r EXCEPT !.pc = "done", !.resp = response,
                                        !.written = @ + 1]]

\* A request is received: security headers, express.json(), timeout armed.
Arrive(s, forwardeds, origins, headers) ==
    /\ mode = "http"
    /\ started
    /\ req[s].pc = "idle"
    /\ \E path \in Paths, method \in Methods, forwarded \in forwardeds,
          origin \in origins, header \in headers :
           req' = [req EXCEPT ![s] = [IdleReq EXCEPT !.pc = "ratelimit",
                                                     !.armedAt = now,
                                                     !.path = path,
                                                     !.method = method,
                                                     !.forwarded = forwarded,
                                                     !.origin = origin,
                                                     !.auth = header]]
    /\ UNCHANGED <<config, now, requestCounts, seen>>

\* Rate limiting middleware (skips /health).
RateLimitMiddleware(s) ==
    /\ req[s].pc = "ratelimit"
    /\ IF req[s].path = "/health"
       THEN /\ req' = [req EXCEPT ![s].pc = "cors"]
            /\ UNCHANGED <<requestCounts, seen>>
       ELSE LET clientKey == getClientKey(req[s].forwarded, SlotIp[s])
                rl == checkRateLimit(requestCounts, clientKey, now,
                                     rateLimitWindowMs, rateLimitMaxRequests)
                r  == [req[s] EXCEPT !.clientKey = clientKey,
                                     !.nth = Observe(seen, clientKey)[clientKey].n,
                                     !.stages = Append(@, "ratelimit")]
            IN  /\ requestCounts' = rl.counts
                /\ seen' = ObserveOutcome(seen, clientKey, rl)
                /\ IF ~rl.allowed
                   THEN Respond(s, r,
                            [Resp(429, "Too Many Requests",
                                  "Rate limit exceeded. Please try again later.")
                             EXCEPT !.retryAfter =
                                        retryAfterSeconds(rl.resetTime, now)])
                   ELSE req' = [req EXCEPT ![s] = [r EXCEPT !.pc = "cors"]]
    /\ UNCHANGED <<config, now>>

CorsMiddlewareNoReturn(s) ==
    /\ req[s].pc = "cors"
    /\ LET r == [req[s] EXCEPT !.stages = Append(@, "cors")]
       IN  IF ~isOriginAllowed(r.origin)
           THEN req' = [req EXCEPT ![s] =
                            [r EXCEPT !.pc = "route",
                                      !.resp = Resp(403, "Forbidden",
                                          "Origin not allowed by CORS policy")]]
           ELSE IF r.method = "OPTIONS"
           THEN Respond(s, r, Resp(204, "", ""))
           ELSE req' = [req EXCEPT ![s] = [r EXCEPT !.pc = "route"]]
    /\ UNCHANGED <<config, now, requestCounts, seen>>

\* CORS middleware.
CorsMiddleware(s) ==
    /\ req[s].pc = "cors"
    /\ LET r == [req[s] EXCEPT !.stages = Append(@, "cors")]
       IN  IF ~isOriginAllowed(r.origin)
           THEN IF r.method = "OPTIONS"
                THEN Respond(s, r, Resp(403, "Forbidden", ""))
                ELSE Respond(s, r, Resp(403, "Forbidden",
                                        "Origin not allowed by CORS policy"))
           ELSE IF r.method = "OPTIONS"
           THEN Respond(s, r, Resp(204, "", ""))
           ELSE req' = [req EXCEPT ![s] = [r EXCEPT !.pc = "route"]]
    /\ UNCHANGED <<config, now, requestCounts, seen>>

\* app.get('/health')
HealthRoute(s) ==
    /\ req[s].pc = "route"
    /\ RouteMatches("/health", req[s].path)
    /\ req[s].method = "GET"
    /\ Respond(s, req[s], Resp(200, "", "healthy"))
    /\ UNCHANGED <<config, now, requestCounts, seen>>

\* No route matches (express answers 404).
NotFound(s) ==
    /\ req[s].pc = "route"
    /\ RouteMatches("/health", req[s].path)
    /\ req[s].method # "GET"
    /\ Respond(s, req[s], Resp(404, "Not Found", ""))
    /\ UNCHANGED <<config, now, requestCounts, seen>>

\* app.use('/mcp', authMiddleware)
AuthMiddleware(s) ==
    /\ req[s].pc = "route"
    /\ RouteMatches("/mcp", req[s].path)
    /\ LET a == authMiddleware(req[s].auth, now)
           r == [req[s] EXCEPT !.authAt = now,
                               !.stages = Append(@, "auth")]
       IN  IF a.next
           THEN req' = [req EXCEPT ![s] = [r EXCEPT !.pc = "handler",
                                                    !.user = a.user]]
           ELSE Respond(s, r, a.resp)
    /\ UNCHANGED <<config, now, requestCounts, seen>>

PostMcpSharedIdentity(s) ==
    /\ req[s].pc = "handler"
    /\ req[s].method = "POST"
    /\ \E t \in DOMAIN req :
           /\ req[t].user.present
           /\ req' = [req EXCEPT ![s].pc = "dispatch",
                                 ![s].session = TRUE,
                                 ![s].userContext = req[t].user,
                                 ![s].stages = Append(@, "session")]
    /\ UNCHANGED <<config, now, requestCounts, seen>>

\* app.post('/mcp'): a fresh transport and server, bound to req.user.
PostMcp(s) ==
    /\ req[s].pc = "handler"
    /\ req[s].method = "POST"
    /\ req' = [req EXCEPT ![s].pc = "dispatch",
                          ![s].session = TRUE,
                          ![s].userContext = req[s].user,
                          ![s].stages = Append(@, "session")]
    /\ UNCHANGED <<config, now, requestCounts, seen>>

\* app.get('/mcp') (and app.delete): 405 in stateless mode.
MethodNotAllowed(s) ==
    /\ req[s].pc = "handler"
    /\ req[s].method # "POST"
    /\ Respond(s, req[s], Resp(405, "Method Not Allowed",
                "GET requests are not supported in stateless mode. Use POST for MCP requests."))
    /\ UNCHANGED <<config, now, requestCounts, seen>>

\* Stdio mode: createMcpServer() with no userContext; calls arrive directly.
StdioCall(s) ==
    /\ mode = "stdio"
    /\ started
    /\ req[s].pc = "idle"
    /\ req' = [req EXCEPT ![s] = [IdleReq EXCEPT !.pc = "dispatch",
                                                 !.session = TRUE]]
    /\ UNCHANGED <<config, now, requestCounts, seen>>

\* -------------------------------------------------------------- dispatcher
ProtocolError(message, detail) ==
    [kind |-> "protocol_error", message |-> message, detail |-> detail]

\* What the tool's input schema can find wrong with the arguments: a list of
\* zod issues (path, message), empty when the arguments parse.
ArgIssues ==
    {<<>>,
     <<[path |-> "sql", message |-> "Required"]>>,
     <<[path |-> "sql", message |-> "Required"],
       [path |-> "read_only", message |-> "Expected boolean, received string"]>>}

ZodIssuesTextFirstOnly(issues) ==
    IF issues = <<>> THEN <<>>
    ELSE <<issues[1].path, issues[1].message>>

\* error.issues.map((e) => `${e.path.join('.')}: ${e.message}`).join(', '):
\* the paths and messages the text contains, in order.
RECURSIVE ZodIssuesText(_)
ZodIssuesText(issues) ==
    IF issues = <<>> THEN <<>>
    ELSE <<issues[1].path, issues[1].message>> \o ZodIssuesText(Tail(issues))

ResolveToolUnknownForDisabled(toolName, registered) ==
    IF toolName \notin registered
    THEN ProtocolError("Unknown tool", <<toolName>>)
    ELSE NoReply

\* Resolve: look the name up in registeredTools, then in availableTools.
\* NoReply = resolved.
ResolveTool(toolName, registered) ==
    IF toolName \notin registered
    THEN IF toolName \in DOMAIN availableTools
         THEN ProtocolError("available but not enabled", <<toolName>>)
         ELSE ProtocolError("Unknown tool", <<toolName>>)
    ELSE NoReply

AccessDeniedWithoutIdentityTest(userContext, toolName) ==
    ~canAccessTool(userContext.role, EffectiveLevel(availableTools[toolName]))

\* Authorize: `if (userContext) { if (!canAccessTool(...)) throw ... }`
AccessDenied(userContext, toolName) ==
    /\ userContext.present
    /\ ~canAccessTool(userContext.role, EffectiveLevel(availableTools[toolName]))

CallToolHandlerSilentDenial(userContext, toolName, issues, registered) ==
    IF ResolveTool(toolName, registered) # NoReply
    THEN [proceed |-> FALSE, audit |-> FALSE,
          reply |-> ResolveTool(toolName, registered)]
    ELSE LET toolPrivilegeLevel == EffectiveLevel(availableTools[toolName]) IN
         IF AccessDenied(userContext, toolName)
         THEN [proceed |-> FALSE, audit |-> FALSE,
               reply |-> ProtocolError("Access denied", <<toolName>>)]
         ELSE IF issues # <<>>
         THEN [proceed |-> FALSE, audit |-> FALSE,
               reply |-> [kind |-> "inband_error",
                          message |-> "Input validation failed",
                          detail |-> <<toolName>> \o ZodIssuesText(issues)]]
         ELSE [proceed |-> TRUE, audit |-> FALSE, reply |-> NoReply]

CallToolHandlerValidatesFirst(userContext, toolName, issues, registered) ==
    IF ResolveTool(toolName, registered) # NoReply
    THEN [proceed |-> FALSE, audit |-> FALSE,
          reply |-> ResolveTool(toolName, registered)]
    ELSE LET toolPrivilegeLevel == EffectiveLevel(availableTools[toolName]) IN
         IF issues # <<>>
         THEN [proceed |-> FALSE, audit |-> FALSE,
               reply |-> [kind |-> "inband_error",
                          message |-> "Input validation failed",
                          detail |-> <<toolName>> \o ZodIssuesText(issues)]]
         ELSE IF AccessDenied(userContext, toolName)
         THEN [proceed |-> FALSE, audit |-> TRUE,
               reply |-> ProtocolError("Access denied",
                             <<toolName, toolPrivilegeLevel, userContext.role>>)]
         ELSE [proceed |-> TRUE, audit |-> FALSE, reply |-> NoReply]

\* The CallToolRequestSchema handler up to the call of tool.execute:
\* Resolve, Authorize, Validate.  proceed = the tool body is invoked.
CallToolHandler(userContext, toolName, issues, registered) ==
    IF ResolveTool(toolName, registered) # NoReply
    THEN [proceed |-> FALSE, audit |-> FALSE,
          reply |-> ResolveTool(toolName, registered)]
    ELSE LET toolPrivilegeLevel == EffectiveLevel(availableTools[toolName]) IN
         IF AccessDenied(userContext, toolName)
         THEN [proceed |-> FALSE, audit |-> TRUE,
               reply |-> ProtocolError("Access denied",
                             <<toolName, toolPrivilegeLevel, userContext.role>>)]
         ELSE IF issues # <<>>
         THEN [proceed |-> FALSE, audit |-> FALSE,
               reply |-> [kind |-> "inband_error",
                          message |-> "Input validation failed",
                          detail |-> <<toolName>> \o ZodIssuesText(issues)]]
         ELSE [proceed |-> TRUE, audit |-> FALSE, reply |-> NoReply]

CallToolResultRethrows(toolName, outcome) ==
    IF outcome.threw
    THEN ProtocolError("Error executing tool",
                       <<toolName, outcome.payload>> \o outcome.parts)
    ELSE [kind |-> "result", message |-> outcome.payload,
          detail |-> <<toolName>> \o outcome.parts]

\* The handler after tool.execute settles: a returned value is serialised
\* into content; anything thrown becomes {content, isError: true}.
CallToolResult(toolName, outcome) ==
    IF outcome.threw
    THEN [kind |-> "inband_error", message |-> "Error executing tool",
          detail |-> <<toolName, outcome.payload>> \o outcome.parts]
    ELSE [kind |-> "result", message |-> outcome.payload,
          detail |-> <<toolName>> \o outcome.parts]

\* What the transport writes for a dispatcher reply (HTTP mode only); nothing
\* more is written once a response has been sent.
ReplyResp(r) ==
    IF r.resp.status # 0 THEN r.resp
    ELSE IF r.userContext.present THEN Resp(200, "", "jsonrpc") ELSE NoResp

\* Responses written to res once the transport has handled a dispatcher reply.
ReplyWritten(r) ==
    IF r.resp.status = 0 /\ r.userContext.present THEN r.written + 1
    ELSE r.written

\* Number of backend primitives called by a sequence of chain invocations.
RECURSIVE CountAttempts(_)
CountAttempts(calls) ==
    IF calls = <<>> THEN 0
    ELSE Len(calls[1].attempts) + CountAttempts(Tail(calls))

\* tools/call
Dispatch(s, tools) ==
    /\ req[s].pc = "dispatch"
    /\ \E toolName \in tools, issues \in ArgIssues :
       LET d == CallToolHandler(req[s].userContext, toolName, issues,
                                registeredTools)
           r == [req[s] EXCEPT !.rpc = "tools/call",
                               !.tool = toolName, !.issues = issues,
                               !.argsValid = (issues = <<>>),
                               !.audit = d.audit,
                               !.stages = Append(@, "dispatch")]
       IN  IF d.proceed
           THEN req' = [req EXCEPT ![s] = [r EXCEPT !.pc = "executing",
                                                    !.bodyRan = TRUE]]
           ELSE req' = [req EXCEPT ![s] = [r EXCEPT !.pc = "done",
                                                    !.reply = d.reply,
                                                    !.resp = ReplyResp(r),
                                                    !.written = ReplyWritten(r)]]
    /\ UNCHANGED <<config, now, requestCounts, seen>>

\* tools/list: the ListTools handler returns Object.values(capabilities.tools).
ListToolsHandler(s) ==
    /\ req[s].pc = "dispatch"
    /\ req' = [req EXCEPT ![s].pc = "done",
                          ![s].rpc = "tools/list",
                          ![s].listing = registeredTools,
                          ![s].stages = Append(@, "dispatch"),
                          ![s].reply = [kind |-> "result", message |-> "tools",
                                        detail |-> <<>>],
                          ![s].resp = ReplyResp(req[s]),
                          ![s].written = ReplyWritten(req[s])]
    /\ UNCHANGED <<config, now, requestCounts, seen>>

\* tool.execute settles: its value is serialised, a throw becomes isError.
ToolCompletes(s, results) ==
    /\ req[s].pc = "executing"
    /\ \E os \in [1..MaxStatements -> results] :
       LET body == ToolExecute(req[s].tool, pgAvailable, serviceRoleAvailable, os)
       IN  req' = [req EXCEPT ![s].pc = "done",
                              ![s].calls = body.calls,
                              ![s].backendCalls = CountAttempts(body.calls),
                              ![s].outcome = body.outcome,
                              ![s].reply = CallToolResult(req[s].tool,
                                                          body.outcome),
                              ![s].resp = ReplyResp(req[s]),
                              ![s].written = ReplyWritten(req[s])]
    /\ UNCHANGED <<config, now, requestCounts, seen>>

\* tools/call of generate_typescript_types (registered; its descriptor has no
\* privilegeLevel) by a caller allowed to use it, with arguments that parse.
GenerateTypesCall(s) ==
    /\ req[s].pc = "dispatch"
    /\ enabledToolNames = NoWhitelist
    /\ ~(req[s].userContext.present
         /\ ~canAccessTool(req[s].userContext.role, "regular"))
    /\ \E dbUrl \in DbUrls, schemasValid \in BOOLEAN, outcome \in ExecOutcomes :
         /\ (dbUrl = NoDbUrl) = ~pgAvailable
         /\ LET body == GenerateTypesBody(dbUrl, schemasValid, outcome)
            IN  req' = [req EXCEPT
                           ![s].pc = "done",
                           ![s].rpc = "tools/call",
                           ![s].tool = "generate_typescript_types",
                           ![s].bodyRan = TRUE,
                           ![s].stages = Append(@, "dispatch"),
                           ![s].log = body.log,
                           ![s].outcome = body.outcome,
                           ![s].reply = CallToolResult("generate_typescript_types",
                                                       body.outcome),
                           ![s].resp = ReplyResp(req[s]),
                           ![s].written = ReplyWritten(req[s])]
    /\ UNCHANGED <<config, now, requestCounts, seen>>

\* The catch block of the POST /mcp handler: server.connect or
\* transport.handleRequest rejected.  A 500 is written unless headers were
\* sent; the lines that register the cleanup listener were skipped.
HandleRequestRejects(s) ==
    /\ mode = "http"
    /\ req[s].pc = "dispatch"
    /\ req' = [req EXCEPT ![s].pc = "done",
                          ![s].threw = TRUE,
                          ![s].resp = IF req[s].resp.status = 0
                                      THEN Resp(500, "Internal server error", "jsonrpc")
                                      ELSE req[s].resp,
                          ![s].written = IF req[s].resp.status = 0
                                         THEN @ + 1 ELSE @]
    /\ UNCHANGED <<config, now, requestCounts, seen>>

\* The response has finished.  The 'finish' listener registered after
\* handleRequest closes the transport and the server of the request; when the
\* try block threw, no listener was registered and the session stays as it is.
Finish(s) ==
    /\ req[s].pc = "done"
    /\ req' = IF req[s].threw
              THEN [req EXCEPT ![s].pc = "ended"]
              ELSE [req EXCEPT ![s] = IdleReq]
    /\ UNCHANGED <<config, now, requestCounts, seen>>

\* ------------------------------------------------------------------ timeout
\* The timeout of a request has expired: requestTimeoutMs after the timer was
\* armed, while the request is still open.
TimerExpired(s) ==
    /\ mode = "http"
    /\ req[s].pc \in {"dispatch", "executing", "done"}
    /\ now >= req[s].armedAt + requestTimeoutMs

\* The callback would write: no response headers have been sent.
TimerDue(s) ==
    /\ TimerExpired(s)
    /\ req[s].resp.status = 0

TimeoutFiresCancels(s) ==
    /\ TimerDue(s)
    /\ req' = [req EXCEPT ![s].pc = "done",
                          ![s].resp = Resp(504, "Gateway Timeout",
                                           "Request timed out"),
                          ![s].written = @ + 1]
    /\ UNCHANGED <<config, now, requestCounts, seen>>

TimeoutFiresUnguarded(s) ==
    /\ TimerExpired(s)
    /\ req' = [req EXCEPT ![s].resp = Resp(504, "Gateway Timeout",
                                           "Request timed out"),
                          ![s].written = @ + 1]
    /\ UNCHANGED <<config, now, requestCounts, seen>>

\* The res.setTimeout callback: `if (!res.headersSent) res.status(504).json(..)`
TimeoutFires(s) ==
    /\ TimerExpired(s)
    /\ req' = IF req[s].resp.status = 0
              THEN [req EXCEPT ![s].resp = Resp(504, "Gateway Timeout",
                                                "Request timed out"),
                               ![s].written = @ + 1]
              ELSE req
    /\ UNCHANGED <<config, now, requestCounts, seen>>

\* Stages that run synchronously, in one turn of the event loop.
SyncStages == {"ratelimit", "cors", "route", "handler"}

\* Time passes: not inside a synchronous stage, and a due timer fires first.
Tick(steps) ==
    /\ \A s \in DOMAIN req : req[s].pc \notin SyncStages /\ ~TimerDue(s)
    /\ \E d \in steps :
           /\ now + d <= MaxSeconds * MsPerSecond
           /\ now' = now + d
    /\ UNCHANGED <<config, requestCounts, seen, req>>

CleanupExpiredDeletesLive ==
    /\ mode = "http"
    /\ requestCounts' = MapDelete(requestCounts, DOMAIN requestCounts)
    /\ UNCHANGED <<config, now, seen, req>>

\* cleanupExpiredRateLimitEntries, run by the cleanup interval.
CleanupExpired ==
    /\ mode = "http"
    /\ requestCounts' =
           MapDelete(requestCounts,
                     {key \in DOMAIN requestCounts :
                          now >= requestCounts[key].resetTime})
    /\ UNCHANGED <<config, now, seen, req>>

Next ==
    \/ \E s \in Slots : Arrive(s, {<<>>}, Origins, AuthHeaders)
    \/ \E s \in Slots : RateLimitMiddleware(s)
    \/ \E s \in Slots : CorsMiddleware(s)
    \/ \E s \in Slots : HealthRoute(s)
    \/ \E s \in Slots : NotFound(s)
    \/ \E s \in Slots : AuthMiddleware(s)
    \/ \E s \in Slots : PostMcp(s)
    \/ \E s \in Slots : MethodNotAllowed(s)
    \/ \E s \in Slots : StdioCall(s)
    \/ \E s \in Slots : Dispatch(s, ToolNames)
    \/ \E s \in Slots : ListToolsHandler(s)
    \/ \E s \in Slots : ToolCompletes(s, RowsOrError)
    \/ \E s \in Slots : Finish(s)
    \/ Tick({MsPerSecond})
    \/ CleanupExpired

Spec == Init /\ [][Next]_vars

\* The rate limiter under every modelled configuration, with a request pool
\* narrowed to one valid and one missing credential.
ServiceHeader ==
    [scheme |-> "Bearer",
     token |-> [form |-> "jwt", signing |-> "HS256-secret", sub |-> "user-123",
                exp |-> 1000, role |-> "service_role"]]

RateHeaders == {NoHeader, ServiceHeader}

InitRate ==
    /\ InitWith({"http"}, {NoToolsConfig}, {500, 1000, 1500}, {0, 1, 2})
    /\ InitBackend({TRUE}, {FALSE}, {DefaultRequestTimeoutMs})
    /\ InitSlots(Slots)

NextRate ==
    \/ \E s \in Slots : Arrive(s, Forwardeds, {NoOrigin}, RateHeaders)
    \/ \E s \in Slots : RateLimitMiddleware(s)
    \/ \E s \in Slots : CorsMiddleware(s)
    \/ \E s \in Slots : HealthRoute(s)
    \/ \E s \in Slots : NotFound(s)
    \/ \E s \in Slots : AuthMiddleware(s)
    \/ \E s \in Slots : PostMcp(s)
    \/ \E s \in Slots : MethodNotAllowed(s)
    \/ \E s \in Slots : Dispatch(s, {"list_indexes"})
    \/ \E s \in Slots : ToolCompletes(s, RowsOnly)
    \/ \E s \in Slots : Finish(s)
    \/ Tick({500})
    \/ CleanupExpired

SpecRate == InitRate /\ [][NextRate]_vars

\* The dispatcher, the tool bodies, the fallback chain and the timeout under
\* every tool configuration file and backend configuration, with a request
\* pool narrowed to two valid credentials.
AuthenticatedHeader ==
    [scheme |-> "Bearer",
     token |-> [form |-> "jwt", signing |-> "HS256-secret", sub |-> "user-123",
                exp |-> 1000, role |-> "authenticated"]]

ToolsHeaders == {ServiceHeader, AuthenticatedHeader}

InitTools ==
    /\ InitWith({"http", "stdio"}, ToolsConfigFiles, {1500}, {2})
    /\ InitBackend(BOOLEAN, BOOLEAN, {MsPerSecond})
    /\ InitSlots(Slots)

NextTools ==
    \/ \E s \in Slots : Arrive(s, {<<>>}, {NoOrigin}, ToolsHeaders)
    \/ \E s \in Slots : RateLimitMiddleware(s)
    \/ \E s \in Slots : CorsMiddleware(s)
    \/ \E s \in Slots : HealthRoute(s)
    \/ \E s \in Slots : NotFound(s)
    \/ \E s \in Slots : AuthMiddleware(s)
    \/ \E s \in Slots : PostMcp(s)
    \/ \E s \in Slots : MethodNotAllowed(s)
    \/ \E s \in Slots : StdioCall(s)
    \/ \E s \in Slots : Dispatch(s, ToolNames)
    \/ \E s \in Slots : ListToolsHandler(s)
    \/ \E s \in Slots : ToolCompletes(s, BackendResults)
    \/ \E s \in Slots : TimeoutFires(s)
    \/ \E s \in Slots : Finish(s)
    \/ Tick({MsPerSecond})
    \/ CleanupExpired

SpecTools == InitTools /\ [][NextTools]_vars

\* The rate limiter's windows and the sweep, with requests that carry no
\* credential (the limiter runs before authentication).
AnonymousHeaders == {NoHeader}

InitWindow ==
    /\ InitWith({"http"}, {NoToolsConfig}, {500, 1500}, {1, 2})
    /\ InitBackend({TRUE}, {FALSE}, {DefaultRequestTimeoutMs})
    /\ InitSlots(Slots)

NextWindow ==
    \/ \E s \in Slots : Arrive(s, Forwardeds, {NoOrigin}, AnonymousHeaders)
    \/ \E s \in Slots : RateLimitMiddleware(s)
    \/ \E s \in Slots : CorsMiddleware(s)
    \/ \E s \in Slots : HealthRoute(s)
    \/ \E s \in Slots : NotFound(s)
    \/ \E s \in Slots : AuthMiddleware(s)
    \/ \E s \in Slots : Finish(s)
    \/ Tick({500})
    \/ CleanupExpired

SpecWindow == InitWindow /\ [][NextWindow]_vars

\* Two requests in flight at once, from one remote caller, with either role,
\* within one rate-limit window (no time passes).
ConcurrentTools == {"execute_sql"}

InitConcurrent ==
    /\ InitWith({"http"}, {NoToolsConfig}, {1500}, {1, 2})
    /\ InitBackend({TRUE}, {FALSE}, {DefaultRequestTimeoutMs})
    /\ InitSlots(ConcurrentSlots)

NextConcurrent ==
    \/ \E s \in ConcurrentSlots : Arrive(s, Forwardeds, {NoOrigin}, ToolsHeaders)
    \/ \E s \in ConcurrentSlots : RateLimitMiddleware(s)
    \/ \E s \in ConcurrentSlots : CorsMiddleware(s)
    \/ \E s \in ConcurrentSlots : HealthRoute(s)
    \/ \E s \in ConcurrentSlots : NotFound(s)
    \/ \E s \in ConcurrentSlots : AuthMiddleware(s)
    \/ \E s \in ConcurrentSlots : PostMcp(s)
    \/ \E s \in ConcurrentSlots : MethodNotAllowed(s)
    \/ \E s \in ConcurrentSlots : Dispatch(s, ConcurrentTools)
    \/ \E s \in ConcurrentSlots : ToolCompletes(s, RowsOnly)
    \/ \E s \in ConcurrentSlots : Finish(s)

SpecConcurrent == InitConcurrent /\ [][NextConcurrent]_vars

\* The type generation tool under every database URL and every way its
\* external command can end.
InitSecrets ==
    /\ InitWith({"http", "stdio"}, {NoToolsConfig}, {1500}, {2})
    /\ InitBackend(BOOLEAN, {FALSE}, {DefaultRequestTimeoutMs})
    /\ InitSlots(Slots)

NextSecrets ==
    \/ \E s \in Slots : Arrive(s, {<<>>}, {NoOrigin}, ToolsHeaders)
    \/ \E s \in Slots : RateLimitMiddleware(s)
    \/ \E s \in Slots : CorsMiddleware(s)
    \/ \E s \in Slots : HealthRoute(s)
    \/ \E s \in Slots : NotFound(s)
    \/ \E s \in Slots : AuthMiddleware(s)
    \/ \E s \in Slots : PostMcp(s)
    \/ \E s \in Slots : MethodNotAllowed(s)
    \/ \E s \in Slots : StdioCall(s)
    \/ \E s \in Slots : GenerateTypesCall(s)
    \/ \E s \in Slots : Finish(s)
    \/ Tick({MsPerSecond})

SpecSecrets == InitSecrets /\ [][NextSecrets]_vars

\* The life of the per-request session, with the handler's awaits able to
\* reject.  What the event loop is bound to do once a session exists is fair:
\* handleRequest settles, the tool body settles, a written response finishes.
InitSession ==
    /\ InitWith({"http"}, {NoToolsConfig}, {1500}, {2})
    /\ InitBackend({TRUE}, {FALSE}, {MsPerSecond})
    /\ InitSlots(Slots)

NextSession ==
    \/ \E s \in Slots : Arrive(s, {<<>>}, {NoOrigin}, ToolsHeaders)
    \/ \E s \in Slots : RateLimitMiddleware(s)
    \/ \E s \in Slots : CorsMiddleware(s)
    \/ \E s \in Slots : HealthRoute(s)
    \/ \E s \in Slots : NotFound(s)
    \/ \E s \in Slots : AuthMiddleware(s)
    \/ \E s \in Slots : PostMcp(s)
    \/ \E s \in Slots : MethodNotAllowed(s)
    \/ \E s \in Slots : Dispatch(s, ConcurrentTools)
    \/ \E s \in Slots : HandleRequestRejects(s)
    \/ \E s \in Slots : ToolCompletes(s, RowsOrError)
    \/ \E s \in Slots : TimeoutFires(s)
    \/ \E s \in Slots : Finish(s)
    \/ Tick({MsPerSecond})

FairSession ==
    \A s \in Slots :
        /\ WF_vars(Dispatch(s, ConcurrentTools) \/ HandleRequestRejects(s))
        /\ WF_vars(ToolCompletes(s, RowsOrError))
        /\ WF_vars(Finish(s))

SpecSession == InitSession /\ [][NextSession]_vars /\ FairSession

\* ------------------------------------------------------------------ claims
Has(seq, x) == \E i \in 1..Len(seq) : seq[i] = x

Http(s) == mode = "http" /\ req[s].pc # "idle"

Dispatched(s) == Has(req[s].stages, "dispatch")

Denied(s) == req[s].reply.kind = "protocol_error"
             /\ req[s].reply.message = "Access denied"

\* The role the caller's token states (absent or empty: authenticated).
CallerRole(s) ==
    IF Falsy(req[s].auth.token.role) THEN "authenticated"
    ELSE req[s].auth.token.role

DeclaredPrivileged(toolName) ==
    /\ toolName \in DOMAIN availableTools
    /\ availableTools[toolName].privilegeLevel = "privileged"

\* C1: in HTTP mode the body of a tool declared `privileged` runs only for a
\* caller whose token role is service_role.
C1_PrivilegedBodyOnlyForServiceRole ==
    \A s \in Slots :
        (Http(s) /\ req[s].bodyRan /\ DeclaredPrivileged(req[s].tool))
            => /\ req[s].userContext.present
               /\ req[s].userContext.role = "service_role"
               /\ CallerRole(s) = "service_role"

C1_Witness ==
    \E s \in Slots :
        /\ Http(s) /\ req[s].bodyRan /\ req[s].tool = "execute_sql"
        /\ CallerRole(s) = "service_role"
        /\ req[s].reply.kind = "result"

\* C2: in HTTP mode every tool the README lists as Privileged is denied,
\* before its body runs, to a caller whose role is not service_role.
C2_ReadmePrivilegedNeedServiceRole ==
    \A s \in Slots :
        (Http(s) /\ Dispatched(s) /\ req[s].tool \in ReadmePrivileged
         /\ CallerRole(s) # "service_role")
            => ~req[s].bodyRan

\* C3: canAccessTool is true exactly for service_role with regular or
\* privileged, authenticated with regular, and an unrecognized role with
\* regular; it is false otherwise, and always false for anon.  Every access
\* decision the dispatcher takes follows that table.
RoleStrings == {"service_role", "authenticated", "anon", "admin", "", "root"}

PolicyTable(role, level) ==
    \/ role = "service_role" /\ level \in {"regular", "privileged"}
    \/ role = "authenticated" /\ level = "regular"
    \/ role \notin {"service_role", "authenticated", "anon"} /\ level = "regular"

C4_AuthenticatedDeniedPrivileged ==
    \A s \in Slots :
        (Http(s) /\ Dispatched(s) /\ req[s].tool \in registeredTools
         /\ DeclaredPrivileged(req[s].tool)
         /\ req[s].userContext.role = "authenticated")
            => /\ req[s].pc = "done"
               /\ req[s].reply.kind = "protocol_error"
               /\ req[s].reply.detail =
                      <<req[s].tool, "privileged", "authenticated">>
               /\ req[s].audit
               /\ ~req[s].bodyRan
               /\ req[s].backendCalls = 0

C4_Witness ==
    \E s \in Slots :
        /\ Http(s) /\ Dispatched(s) /\ req[s].tool = "execute_sql"
        /\ req[s].userContext.role = "authenticated"
        /\ CallerRole(s) = "authenticated"
        /\ Denied(s) /\ req[s].audit

\* A token failure, stated from the token itself: no bearer token, a malformed
\* one, one not signed with the configured secret and HS256, one whose exp
\* has passed at time t, or one without a subject.
Expired(token, t) == token.exp # NoExp /\ (t \div MsPerSecond) >= token.exp

TokenFailure(header, t) ==
    \/ header.scheme # "Bearer"
    \/ header.token.form # "jwt"
    \/ header.token.signing # "HS256-secret"
    \/ Expired(header.token, t)
    \/ Falsy(header.token.sub)

Verified(s) == Http(s) /\ Has(req[s].stages, "auth")

\* C5 as stated: every token failure and every privilege denial is answered
\* with an unauthorized transport-level response before the dispatcher runs.
C5_AuthErrorsBeforeDispatcher ==
    \A s \in Slots :
        ((Verified(s) /\ TokenFailure(req[s].auth, req[s].authAt)) \/ Denied(s))
            => /\ req[s].resp.status = 401
               /\ ~Dispatched(s)
               /\ ~req[s].bodyRan

\* C5 amended: a token failure is answered 401 Unauthorized before any
\* session or dispatcher call; a privilege denial is raised inside the
\* dispatcher as a protocol error carried by a 200 exchange; in neither case
\* does any part of a tool body or a backend call run.
C5_AuthErrorsNeverExecute ==
    \A s \in Slots :
        /\ (Verified(s) /\ TokenFailure(req[s].auth, req[s].authAt))
               => /\ req[s].pc = "done"
                  /\ req[s].resp.status = 401
                  /\ req[s].resp.error = "Unauthorized"
                  /\ ~req[s].session
                  /\ ~Dispatched(s)
                  /\ ~req[s].bodyRan
        /\ (Http(s) /\ Denied(s))
               => /\ req[s].pc = "done"
                  /\ Dispatched(s)
                  /\ req[s].resp.status = 200
                  /\ ~req[s].bodyRan
                  /\ req[s].backendCalls = 0

C5_Witness ==
    \E s \in Slots :
        /\ Http(s) /\ Denied(s)
        /\ req[s].resp.status = 200
        /\ req[s].tool = "explain_query"
        /\ CallerRole(s) = "anon"

\* C6: an /mcp request passes rate limit, origin check, token verification
\* and session creation in that order; a request rejected by a stage gets that
\* stage's response at once and reaches no later stage nor the dispatcher.
PipelineOrder == <<"ratelimit", "cors", "auth", "session", "dispatch">>

IsPrefix(a, b) == Len(a) <= Len(b) /\ \A i \in 1..Len(a) : a[i] = b[i]

C6_PipelineOrder ==
    \A s \in Slots :
        (Http(s) /\ req[s].path = "/mcp")
            => /\ IsPrefix(req[s].stages, PipelineOrder)
               /\ req[s].resp.status = 429 => req[s].stages = <<"ratelimit">>
               /\ req[s].resp.status = 403
                      => req[s].stages = <<"ratelimit", "cors">>
               /\ req[s].resp.status = 401
                      => req[s].stages = <<"ratelimit", "cors", "auth">>
               /\ req[s].resp.status \in {429, 403, 401}
                      => /\ req[s].pc = "done"
                         /\ ~req[s].session
                         /\ ~Dispatched(s)
                         /\ ~req[s].bodyRan

C6_Witness ==
    \E s \in Slots :
        /\ Http(s) /\ req[s].path = "/mcp" /\ req[s].pc = "done"
        /\ req[s].resp.status = 401
        /\ req[s].stages = <<"ratelimit", "cors", "auth">>
        /\ req[s].auth.scheme = "Bearer"

\* C7: an identity is attached only for a bearer token that verifies against
\* the configured secret with HS256 and carries a non-empty sub and an exp;
\* every other token is answered 401 and the next stage is never reached.
CarriesRequiredClaims(token) == ~Falsy(token.sub) /\ token.exp # NoExp

C7_IdentityOnlyForCompleteToken ==
    \A s \in Slots :
        Verified(s)
            => IF /\ req[s].auth.scheme = "Bearer"
                  /\ req[s].auth.token.form = "jwt"
                  /\ req[s].auth.token.signing = "HS256-secret"
                  /\ CarriesRequiredClaims(req[s].auth.token)
               THEN TRUE
               ELSE /\ ~req[s].user.present
                    /\ req[s].pc = "done"
                    /\ req[s].resp.status = 401
                    /\ ~req[s].session

\* C8: a correctly signed token whose exp is in the past is answered with the
\* dedicated expired-token response ('Token has expired').
C8_ExpiredGetsDedicatedResponse ==
    \A s \in Slots :
        (Verified(s) /\ req[s].auth.scheme = "Bearer"
         /\ req[s].auth.token.form = "jwt"
         /\ req[s].auth.token.signing = "HS256-secret"
         /\ Expired(req[s].auth.token, req[s].authAt))
            => req[s].resp = Resp(401, "Unauthorized", "Token has expired")

\* C9 as stated: of the requests of one client key in one window the first N
\* are admitted and the (N+1)th is rejected with a retry-after of at most W.
RateLimited(s) == Http(s) /\ Has(req[s].stages, "ratelimit")

C9_RetryAfterWithinWindow ==
    \A s \in Slots :
        RateLimited(s)
            => /\ req[s].nth <= rateLimitMaxRequests => req[s].resp.status # 429
               /\ req[s].nth = rateLimitMaxRequests + 1
                      => /\ req[s].resp.status = 429
                         /\ req[s].resp.retryAfter * MsPerSecond
                                <= rateLimitWindowMs

\* C9 amended: for N >= 1 the first N requests of a key in a window are
\* admitted and the (N+1)th is rejected with a retry-after, in whole seconds,
\* of at least 1 and at most W rounded up to whole seconds.
C9_RetryAfterWithinRoundedWindow ==
    \A s \in Slots :
        (RateLimited(s) /\ rateLimitMaxRequests >= 1)
            => /\ req[s].nth <= rateLimitMaxRequests => req[s].resp.status # 429
               /\ req[s].nth = rateLimitMaxRequests + 1
                      => /\ req[s].resp.status = 429
                         /\ req[s].pc = "done"
                         /\ req[s].resp.retryAfter >= 1
                         /\ req[s].resp.retryAfter
                                <= Max(1, Ceil(rateLimitWindowMs, MsPerSecond))

C9_Witness ==
    \E s \in Slots :
        /\ RateLimited(s)
        /\ rateLimitMaxRequests = 2
        /\ rateLimitWindowMs = 1500
        /\ req[s].nth = 3
        /\ req[s].resp.status = 429
        /\ req[s].resp.retryAfter = 2

\* C10: a GET request served by the health route is answered healthy with
\* no token and with the caller's quota exhausted; the rate limiter and the
\* token check never reject it.
C10_HealthBypassesRateLimitAndAuth ==
    \A s \in Slots :
        (Http(s) /\ RouteMatches("/health", req[s].path))
            => /\ req[s].resp.status \notin {429, 401}
               /\ (req[s].pc = "done" /\ req[s].method = "GET"
                   /\ isOriginAllowed(req[s].origin))
                      => req[s].resp = Resp(200, "", "healthy")

\* A tool body has run to its end.
Executed(s) == req[s].pc = "done" /\ req[s].bodyRan

ChainCalls(s) == {req[s].calls[i] : i \in 1..Len(req[s].calls)}

\* C11: every invocation of the fallback chain calls at most one backend, at
\* most once: the direct connection whenever it is configured (also when the
\* elevated key is configured too), otherwise the elevated remote procedure;
\* an error the called backend reports is what the chain returns, with no
\* second backend tried and no second call of the same one.
C11_OneBackendOnce ==
    \A s \in Slots : \A c \in ChainCalls(s) :
        /\ Len(c.attempts) <= 1
        /\ pgAvailable => c.attempts = <<"pg">>
        /\ (~pgAvailable /\ serviceRoleAvailable) => c.attempts = <<"rpc">>
        /\ c.attempts # <<>> => c.result = c.answer

C11_Witness ==
    \E s \in Slots :
        /\ Executed(s) /\ pgAvailable /\ serviceRoleAvailable
        /\ req[s].tool = "execute_sql"
        /\ req[s].calls[1].attempts = <<"pg">>
        /\ req[s].calls[1].result = SqlError("42501", "permission denied")

\* C12: with neither a direct connection nor an elevated key configured the
\* chain returns the configuration error (code MCP_CONFIG_ERROR) and calls no
\* backend; no other result of the chain comes with zero backend calls.
C12_ConfigErrorWithoutCalls ==
    \A s \in Slots : \A c \in ChainCalls(s) :
        /\ (~pgAvailable /\ ~serviceRoleAvailable)
               => /\ c.attempts = <<>>
                  /\ c.result.kind = "error"
                  /\ c.result.code = "MCP_CONFIG_ERROR"
        /\ c.attempts = <<>>
               => /\ ~pgAvailable /\ ~serviceRoleAvailable
                  /\ c.result.kind = "error"
                  /\ c.result.code = "MCP_CONFIG_ERROR"

C12_Witness ==
    \E s \in Slots :
        /\ Executed(s) /\ ~pgAvailable /\ ~serviceRoleAvailable
        /\ req[s].tool = "list_indexes"
        /\ Len(req[s].calls) = 1
        /\ req[s].calls[1].attempts = <<>>
        /\ req[s].calls[1].result.code = "MCP_CONFIG_ERROR"
        /\ req[s].backendCalls = 0

\* C13: when a statement of a tool call failed (the backend or the chain's
\* configuration check reported an error), the reply is an in-band error
\* that carries the failure's code and message.
C13_BackendFailuresReachCaller ==
    \A s \in Slots : \A c \in ChainCalls(s) :
        (Executed(s) /\ c.result.kind = "error")
            => /\ req[s].reply.kind = "inband_error"
               /\ Has(req[s].reply.detail, c.result.code)
               /\ Has(req[s].reply.detail, c.result.message)

\* A failure a tool body returns as a value: an output object saying
\* `success: false`.
FailurePayloads ==
    {"success: false, Storage schema not found - Storage may not be configured",
     "success: false, Bucket not found",
     "success: false, Failed to update bucket",
     "success: false, Update executed but no rows returned"}

ReturnedFailure(outcome) == ~outcome.threw /\ outcome.payload \in FailurePayloads

Answered(s) ==
    Http(s) => \/ req[s].resp.status = 200
               \/ /\ req[s].resp.status = 504
                  /\ now >= req[s].armedAt + requestTimeoutMs

\* C14 as stated: a failure the tool body throws or returns is answered with
\* a reply carrying the in-band error flag, inside a successful exchange.
C14_ToolFailuresFlagged ==
    \A s \in Slots :
        (Executed(s) /\ (req[s].outcome.threw \/ ReturnedFailure(req[s].outcome)))
            => /\ req[s].reply.kind = "inband_error"
               /\ Answered(s)

\* C14 amended: a failure the tool body throws is caught by the dispatcher
\* and answered with a reply carrying the in-band error flag and the thrown
\* message; a failure the body returns as a value (success: false) is
\* serialised like any result, without the flag.  Either way the call
\* completes inside a successful exchange (200, or the 504 of a timeout that
\* had expired before), never as a protocol or transport error.
C14_ThrownFailuresFlagged ==
    \A s \in Slots :
        Executed(s)
            => /\ req[s].outcome.threw
                      => /\ req[s].reply.kind = "inband_error"
                         /\ req[s].reply.detail =
                                <<req[s].tool, req[s].outcome.payload>>
                                    \o req[s].outcome.parts
               /\ ~req[s].outcome.threw
                      => /\ req[s].reply.kind = "result"
                         /\ req[s].reply.message = req[s].outcome.payload
               /\ Answered(s)

C14_Witness ==
    \E s \in Slots :
        /\ Http(s) /\ Executed(s) /\ req[s].outcome.threw
        /\ req[s].tool = "list_indexes"
        /\ req[s].reply.kind = "inband_error"
        /\ req[s].resp.status = 200

\* The call was a tools/call that the dispatcher has handled.
Called(s) == req[s].rpc = "tools/call" /\ Dispatched(s)

\* The call passed Resolve and Authorize, so Validate was reached.
ReachedValidate(s) ==
    /\ Called(s)
    /\ req[s].tool \in registeredTools
    /\ ~Denied(s)

\* C15: arguments that fail the tool's input contract never reach the tool
\* body; when the call got as far as validation, the reply is one in-band
\* error whose text names the path and the reason of every violation.
C15_AllViolationsListed ==
    \A s \in Slots :
        (Called(s) /\ req[s].issues # <<>>)
            => /\ ~req[s].bodyRan
               /\ req[s].calls = <<>>
               /\ ReachedValidate(s)
                      => /\ req[s].pc = "done"
                         /\ req[s].reply.kind = "inband_error"
                         /\ req[s].reply.message = "Input validation failed"
                         /\ \A i \in 1..Len(req[s].issues) :
                                /\ Has(req[s].reply.detail, req[s].issues[i].path)
                                /\ Has(req[s].reply.detail, req[s].issues[i].message)

C15_Witness ==
    \E s \in Slots :
        /\ Called(s) /\ ReachedValidate(s)
        /\ req[s].tool = "execute_sql"
        /\ Len(req[s].issues) = 2
        /\ req[s].reply.detail =
               <<"execute_sql", "sql", "Required", "read_only",
                 "Expected boolean, received string">>

\* C16: a call of a catalog tool that the whitelist leaves out is answered
\* "available but not enabled", a call of a name outside the catalog is
\* answered "Unknown tool"; neither runs a tool body.
C16_DisabledDistinctFromUnknown ==
    \A s \in Slots :
        (Called(s) /\ req[s].tool \notin registeredTools)
            => /\ req[s].pc = "done"
               /\ ~req[s].bodyRan
               /\ req[s].calls = <<>>
               /\ req[s].reply.kind = "protocol_error"
               /\ IF req[s].tool \in DOMAIN availableTools
                  THEN /\ enabledToolNames # NoWhitelist
                       /\ req[s].tool \notin enabledToolNames
                       /\ req[s].reply.message = "available but not enabled"
                  ELSE req[s].reply.message = "Unknown tool"

C16_Witness ==
    \E s \in Slots :
        /\ Called(s)
        /\ req[s].tool = "explain_query"
        /\ enabledToolNames = {"list_indexes", "execute_sql", "not_a_tool"}
        /\ req[s].reply.message = "available but not enabled"

\* The effective catalog the spec defines: the catalog cut by the whitelist.
EffectiveCatalog ==
    IF enabledToolNames = NoWhitelist
    THEN DOMAIN availableTools
    ELSE DOMAIN availableTools \cap enabledToolNames

\* C17: the tools tools/list returns and the names tools/call resolves are
\* exactly the catalog cut by the whitelist (the whole catalog when there is
\* no whitelist); a whitelist naming one catalog tool gives a listing of one.
C17_ExposedIsIntersection ==
    /\ registeredTools = EffectiveCatalog
    /\ \A toolName \in ToolNames :
           (ResolveTool(toolName, registeredTools) = NoReply)
               <=> toolName \in EffectiveCatalog
    /\ \A s \in Slots :
           /\ (req[s].rpc = "tools/list" /\ req[s].pc = "done")
                  => /\ req[s].listing = EffectiveCatalog
                     /\ enabledToolNames = {"list_indexes"}
                            => Cardinality(req[s].listing) = 1
           /\ (Called(s) /\ req[s].reply.kind \in {"none", "result", "inband_error"})
                  => req[s].tool \in EffectiveCatalog

C17_Witness ==
    \E s \in Slots :
        /\ req[s].rpc = "tools/list" /\ req[s].pc = "done"
        /\ enabledToolNames = {"list_indexes"}
        /\ req[s].listing = {"list_indexes"}

\* C18: a --tools-config file that is missing, is not JSON, or is not an
\* object with an array of strings does not stop the startup: the warning is
\* logged and every tool of the catalog is enabled.
C18_MalformedConfigEnablesAll ==
    toolsConfig \in MalformedFiles
        => /\ started
           /\ configWarning
           /\ enabledToolNames = NoWhitelist
           /\ registeredTools = DOMAIN availableTools
           /\ \A s \in Slots :
                  (req[s].rpc = "tools/list" /\ req[s].pc = "done")
                      => req[s].listing = DOMAIN availableTools

C18_Witness ==
    \E s \in Slots :
        /\ toolsConfig = EnabledToolsFile(<<Str("list_indexes"), Num("42")>>)
        /\ req[s].rpc = "tools/list" /\ req[s].pc = "done"
        /\ req[s].listing = DOMAIN availableTools

\* C19: in stdio mode no call is denied for lack of privilege and none is
\* audited as a denial: every tool of the effective catalog, privileged ones
\* included, goes on to validation, and with valid arguments to its body.
C19_StdioSkipsAccessControl ==
    \A s \in Slots :
        (mode = "stdio" /\ Called(s))
            => /\ ~req[s].userContext.present
               /\ ~Denied(s)
               /\ ~req[s].audit
               /\ req[s].tool \in registeredTools
                      => IF req[s].issues = <<>>
                         THEN req[s].bodyRan
                         ELSE req[s].reply.message = "Input validation failed"

C19_Witness ==
    \E s \in Slots :
        /\ mode = "stdio" /\ Called(s) /\ Executed(s)
        /\ req[s].tool = "execute_sql"
        /\ DeclaredPrivileged(req[s].tool)
        /\ req[s].reply.kind = "result"

\* C20: a request still unanswered when its timeout expires is answered 504
\* Gateway Timeout at that moment (no request stays unanswered past the
\* expiry, and 504 is sent only at or after it); the expiry ends nothing but
\* the wait: the call goes on and ends only with the dispatcher's own reply.
C20_TimeoutAnswersWithoutCancelling ==
    \A s \in Slots :
        Http(s)
            => /\ req[s].resp.status = 0
                      => now <= req[s].armedAt + requestTimeoutMs
               /\ req[s].resp.status = 504
                      => /\ req[s].resp.error = "Gateway Timeout"
                         /\ req[s].session
                         /\ now >= req[s].armedAt + requestTimeoutMs
                         /\ req[s].pc = "done" => req[s].reply.kind # "none"

C20_Witness ==
    \E s \in Slots :
        /\ Http(s) /\ req[s].resp.status = 504
        /\ Executed(s)
        /\ req[s].tool = "execute_sql"
        /\ req[s].backendCalls = 1
        /\ req[s].reply.kind = "result"

\* A text (sequence of parts) contains the database password.
ContainsSecret(text) == Has(text, DbPassword)

\* C21: no error message returned to a caller and no log line contains a
\* secret; a database connection string is credential-redacted before it
\* appears in a log line.
C21_NoSecretInMessagesOrLogs ==
    \A s \in Slots :
        /\ ~ContainsSecret(req[s].reply.detail)
        /\ \A i \in 1..Len(req[s].log) : ~ContainsSecret(req[s].log[i])

\* The request passed the rate limiter and was admitted.
Admitted(s) == Has(req[s].stages, "ratelimit") /\ req[s].resp.status # 429

Min(a, b) == IF a <= b THEN a ELSE b

\* C22: with requests of one client key in flight at once, every admission is
\* counted: the key's record holds the number of requests admitted in its
\* window, two admitted requests never took the same place in the window, and
\* no request is admitted beyond the configured maximum.
C22_AdmissionsCountedAtomically ==
    /\ \A k \in DOMAIN requestCounts :
           now < requestCounts[k].resetTime
               => requestCounts[k].count
                      = Min(seen[k].n, Max(1, rateLimitMaxRequests))
    /\ \A s \in DOMAIN req :
           Admitted(s) /\ req[s].nth > 1
               => req[s].nth <= rateLimitMaxRequests
    /\ \A s1, s2 \in DOMAIN req :
           /\ s1 # s2 /\ Admitted(s1) /\ Admitted(s2)
           /\ req[s1].clientKey = req[s2].clientKey
           => req[s1].nth # req[s2].nth

C22_Witness ==
    \E s1, s2 \in DOMAIN req :
        /\ s1 # s2
        /\ req[s1].clientKey = req[s2].clientKey
        /\ Admitted(s1) /\ req[s1].nth = rateLimitMaxRequests
        /\ req[s1].pc = "executing"
        /\ req[s2].resp.status = 429
        /\ req[s2].nth = rateLimitMaxRequests + 1

\* The window of the key's record has not expired.
Live(k) == k \in DOMAIN requestCounts /\ now < requestCounts[k].resetTime

\* C23: no step, of the sweep or of request handling, removes or resets a
\* record whose window is live: the record stays, with its reset time and at
\* least its count; so the sweep deletes expired records only.
C23_SweepKeepsLiveRecords ==
    [][\A k \in DOMAIN requestCounts :
           Live(k)
               => /\ k \in DOMAIN requestCounts'
                  /\ requestCounts'[k].resetTime = requestCounts[k].resetTime
                  /\ requestCounts'[k].count >= requestCounts[k].count]_vars

\* The sweep has deleted the expired record of one key and left the live
\* record of another.
C23_Witness ==
    \E a \in DOMAIN seen \ DOMAIN requestCounts, b \in DOMAIN requestCounts :
        /\ Live(b)
        /\ requestCounts[b].count = seen[b].n
        /\ now >= seen[a].start + rateLimitWindowMs

\* C24: a client key has one record, whose window is the key's current window
\* of the history; while the record keeps its window its count never
\* decreases; the count is back at its initial value 1 only in a fresh record,
\* made when the key had no record or its window had expired.
C24_OneWindowCountMonotone ==
    [][\A k \in DOMAIN requestCounts' :
           /\ requestCounts'[k].resetTime = seen'[k].start + rateLimitWindowMs
           /\ k \notin DOMAIN requestCounts => requestCounts'[k].count = 1
           /\ k \in DOMAIN requestCounts =>
                  IF requestCounts'[k].resetTime = requestCounts[k].resetTime
                  THEN requestCounts'[k].count >= requestCounts[k].count
                  ELSE /\ now >= requestCounts[k].resetTime
                       /\ requestCounts'[k].count = 1]_vars

\* A key's window has rolled over: its record is in a later window, counting
\* from 1 again, after the earlier window was used up.
C24_Witness ==
    \E s \in Slots :
        /\ Admitted(s)
        /\ req[s].nth = 1
        /\ Live(req[s].clientKey)
        /\ requestCounts[req[s].clientKey].count = 1
        /\ seen[req[s].clientKey].start > 0
        /\ seen[req[s].clientKey].waited

\* C25: every session created for an inbound call is eventually closed once
\* the call's response has finished, on the success and the error paths.
C25_SessionsEventuallyClosed ==
    \A s \in Slots : [](req[s].session => <>(~req[s].session))

\* C26: with requests of callers of different roles in flight at once, the
\* session of a request carries the identity of that request's own token, and
\* its tool call is authorized against that role.
C26_SessionBoundToOwnIdentity ==
    \A s \in DOMAIN req :
        req[s].session /\ mode = "http"
            => /\ req[s].userContext.present
               /\ req[s].userContext.role = CallerRole(s)
               /\ req[s].userContext.userId = req[s].auth.token.sub
               /\ Dispatched(s) /\ req[s].rpc = "tools/call"
                      => /\ Denied(s) <=>
                               ~canAccessTool(CallerRole(s),
                                    EffectiveLevel(availableTools[req[s].tool]))
                         /\ req[s].bodyRan <=> ~Denied(s) /\ req[s].issues = <<>>

C26_Witness ==
    \E s1, s2 \in DOMAIN req :
        /\ CallerRole(s1) = "service_role" /\ CallerRole(s2) = "authenticated"
        /\ req[s1].session /\ req[s2].session
        /\ req[s1].pc = "executing" /\ req[s1].tool = "execute_sql"
        /\ Denied(s2) /\ req[s2].tool = "execute_sql"

\* The caller's role does not give access to the tool (HTTP mode).
WouldBeDenied(s) ==
    /\ mode = "http"
    /\ req[s].tool \in DOMAIN availableTools
    /\ ~canAccessTool(CallerRole(s), EffectiveLevel(availableTools[req[s].tool]))

\* C27: a call ends at the first of Resolve, Authorize, Validate, Execute that
\* fails: a disabled or unknown tool is reported whatever the caller's role
\* and arguments, and no privilege check is made; a privilege denial is
\* reported whatever the arguments; invalid arguments are reported and
\* nothing is executed; otherwise the body runs.
C27_FirstFailingStepEndsCall ==
    \A s \in Slots :
        Called(s)
            => /\ req[s].tool \notin registeredTools
                      => /\ req[s].reply.kind = "protocol_error"
                         /\ req[s].reply.message
                                \in {"available but not enabled", "Unknown tool"}
                         /\ ~req[s].audit
                         /\ ~req[s].bodyRan
               /\ (req[s].tool \in registeredTools /\ WouldBeDenied(s))
                      => (Denied(s) /\ req[s].audit /\ ~req[s].bodyRan)
               /\ (req[s].tool \in registeredTools /\ ~WouldBeDenied(s)
                     /\ req[s].issues # <<>>)
                      => /\ req[s].reply.message = "Input validation failed"
                         /\ ~req[s].bodyRan
                         /\ req[s].calls = <<>>
               /\ (req[s].tool \in registeredTools /\ ~WouldBeDenied(s)
                     /\ req[s].issues = <<>>)
                      => req[s].bodyRan

\* A disabled privileged tool called by an authenticated caller with invalid
\* arguments: the call ends at Resolve.
C27_Witness ==
    \E s \in Slots :
        /\ Called(s)
        /\ req[s].tool \in DOMAIN availableTools \ registeredTools
        /\ WouldBeDenied(s)
        /\ Len(req[s].issues) = 2
        /\ req[s].reply.message = "available but not enabled"

AdmittedInWindow(k) ==
    IF k \in DOMAIN seen /\ now < seen[k].start + rateLimitWindowMs
    THEN Min(seen[k].n, Max(1, rateLimitMaxRequests))
    ELSE 0

RECURSIVE SumAdmitted(_)
SumAdmitted(keys) ==
    IF keys = {} THEN 0
    ELSE LET k == CHOOSE x \in keys : TRUE
         IN  AdmittedInWindow(k) + SumAdmitted(keys \ {k})

\* C29: the caller (all modelled requests come from one address) has no more
\* than the configured maximum of requests admitted in windows that are open
\* at the same time, whatever X-Forwarded-For headers it sends.
C29_CallerCannotExceedLimit ==
    SumAdmitted(DOMAIN seen) <= Max(1, rateLimitMaxRequests)

\* C30: when a key was rejected and its next request reaches the rate limiter
\* once the advertised retry-after time is over, that request is admitted.
C30_AdmittedAfterRetryAfter ==
    [][\A s \in Slots :
           (req[s].pc = "ratelimit" /\ Has(req'[s].stages, "ratelimit"))
               => LET k == req'[s].clientKey
                  IN  (k \in DOMAIN seen /\ seen[k].retryAt # 0
                         /\ now >= seen[k].retryAt)
                          => req'[s].resp.status # 429]_vars

\* A request admitted as the next one of a key that had been rejected and
\* waited the advertised time.
C30_Witness ==
    \E s \in Slots :
        /\ req[s].pc = "cors"
        /\ Admitted(s)
        /\ seen[req[s].clientKey].waited
        /\ seen[req[s].clientKey].retryAt = 0
        /\ requestCounts[req[s].clientKey].resetTime = now + rateLimitWindowMs

====
